---- MODULE Spec2Model ----
(***************************************************************************)
(* The three MCP tool servers of the repository (action_mcp_server.py,     *)
(* data_mcp_server.py, cql_mcp_server.py) as one state machine.  A state   *)
(* is the state of ONE server process: which of the three programs it      *)
(* runs, the module globals that program read from the environment at      *)
(* import, SENT_MESSAGES, the wall clock, and the last request/response.   *)
(*                                                                         *)
(* Text that the code slices, lower-cases or searches is a sequence of     *)
(* one-character strings; text the code only tests for emptiness and       *)
(* copies (phone numbers, ids, configuration values) is a string.          *)
(***************************************************************************)
EXTENDS Integers, Sequences, FiniteSets, TLC

VARIABLES
    process,              \* "action" | "data" | "cql": the program this process runs
    environ,              \* os.environ of the process
    TWILIO_ACCOUNT_SID,   \* module globals, read once at import
    TWILIO_AUTH_TOKEN,
    TWILIO_FROM_NUMBER,
    DATABRICKS_HOST,
    DATABRICKS_TOKEN,
    DATABRICKS_HTTP_PATH,
    FIREMETRICS_DB_HOST,
    SENT_MESSAGES,        \* the session log of the action server
    now,                  \* wall clock, in ticks
    request,              \* the last request served
    response,             \* the report (or descriptor list) returned for it
    invoked,              \* the adapter functions the last call ran
    raised,               \* TRUE iff an exception left the last handler
    external_fault,       \* TRUE iff the external system failed under the last call
    store_reply,          \* what the patient store did under the last call, "" if not asked
    tasks,                \* the call_tool coroutines the event loop holds, in order of admission
    holder,               \* the task the loop's thread is running, 0 when the thread is free
    completed,            \* the tasks whose handler has returned, in order of return
    used,                 \* every adapter function run since process start
    confirmed_sends,      \* the sends that returned "SMS Notification Sent"
    last_listing          \* the last get_sent_messages report, NoListing before

vars == << process, environ, TWILIO_ACCOUNT_SID, TWILIO_AUTH_TOKEN,
           TWILIO_FROM_NUMBER, DATABRICKS_HOST, DATABRICKS_TOKEN,
           DATABRICKS_HTTP_PATH, FIREMETRICS_DB_HOST, SENT_MESSAGES, now,
           request, response, invoked, raised, external_fault, store_reply,
           tasks, holder, completed, used, confirmed_sends, last_listing >>

loop == << tasks, holder, completed >>

config == << process, environ, TWILIO_ACCOUNT_SID, TWILIO_AUTH_TOKEN,
             TWILIO_FROM_NUMBER, DATABRICKS_HOST, DATABRICKS_TOKEN,
             DATABRICKS_HTTP_PATH, FIREMETRICS_DB_HOST >>

-----------------------------------------------------------------------------
(* Bounds of the model *)

\* calls to send_sms_notification that pass validation, per process
MaxSends == 2
\* ticks the clock advances in a run
MaxClock == 2
\* ticks in one clock second (the resolution of strftime's %S)
TicksPerSecond == 2

(* Program constants *)

\* msg['body'][:50]
ContentLimit == 50
\* result["data"][:10]
DisplayLimit == 10
\* cql_logic[:200]
CqlSnippetLimit == 200

-----------------------------------------------------------------------------
(* Python values *)

\* None
None == [py_none |-> TRUE]
IsNone(v) == "py_none" \in DOMAIN v

\* an exception travelling up the call stack instead of a return value
Exception(msg) == [py_exception |-> msg]
IsException(v) == "py_exception" \in DOMAIN v

\* dict.get(key, default)
Get(d, key, default) == IF key \in DOMAIN d THEN d[key] ELSE default

\* the dict {k1: v1} with the key left out when absent
Arg(present, key, value) == IF present THEN [k \in {key} |-> value] ELSE <<>>

(* Text: str as a sequence of characters *)

\* a value that is not a str: an int, as the tag followed by its digits
IntTag == "<int>"
PyInt(digits) == << IntTag >> \o digits

\* isinstance(v, str)
IsStr(v) == v = << >> \/ v[1] # IntTag

\* bool(v): "" and 0 are false
Truthy(v) == IF IsStr(v) THEN v # << >> ELSE v # PyInt(<< "0" >>)

UpperCase == << "A","B","C","D","E","F","G","H","I","J","K","L","M",
                "N","O","P","Q","R","S","T","U","V","W","X","Y","Z" >>
LowerCase == << "a","b","c","d","e","f","g","h","i","j","k","l","m",
                "n","o","p","q","r","s","t","u","v","w","x","y","z" >>
Whitespace == { " ", "\t", "\n", "\r" }

LowerChar(c) ==
    IF \E i \in 1..Len(UpperCase) : UpperCase[i] = c
    THEN LowerCase[CHOOSE i \in 1..Len(UpperCase) : UpperCase[i] = c]
    ELSE c

\* str.lower()
Lower(s) == [i \in 1..Len(s) |-> LowerChar(s[i])]

\* sub in s
Contains(sub, s) ==
    \E i \in 0..(Len(s) - Len(sub)) : SubSeq(s, i + 1, i + Len(sub)) = sub

\* s[:n]
Prefix(s, n) == SubSeq(s, 1, IF Len(s) < n THEN Len(s) ELSE n)

\* str.strip()
RECURSIVE LStrip(_)
LStrip(s) == IF s # <<>> /\ Head(s) \in Whitespace THEN LStrip(Tail(s)) ELSE s
RECURSIVE RStrip(_)
RStrip(s) ==
    IF s # <<>> /\ s[Len(s)] \in Whitespace
    THEN RStrip(SubSeq(s, 1, Len(s) - 1))
    ELSE s
Strip(s) == RStrip(LStrip(s))

\* f"{s[:n]}{'...' if len(s) > n else ''}"
Ellipsis == << ".", ".", "." >>
Elide(s, n) == Prefix(s, n) \o (IF Len(s) > n THEN Ellipsis ELSE <<>>)

\* datetime.now().strftime('%Y%m%d%H%M%S'): the clock truncated to the second
Strftime(t) == t \div TicksPerSecond

-----------------------------------------------------------------------------
(* action_mcp_server.py *)

\* if TWILIO_ACCOUNT_SID and TWILIO_AUTH_TOKEN:
TwilioLive == TWILIO_ACCOUNT_SID # "" /\ TWILIO_AUTH_TOKEN # ""

\* what client.messages.create can do: raise, or return a message with a sid
GatewayOutcomes == { [raises |-> TRUE, sid |-> 0], [raises |-> FALSE, sid |-> 1] }

\* variant: no try/except around the gateway call
send_sms_real_uncaught(phone_number, message_body, gw) ==
    IF gw.raises
    THEN Exception("gateway")
    ELSE [ status      |-> "sent",
           message_sid |-> << "SM", gw.sid >>,
           to          |-> phone_number,
           body        |-> message_body,
           timestamp   |-> now ]

send_sms_real(phone_number, message_body, gw) ==
    IF gw.raises
    THEN [ status |-> "error", error |-> "gateway", to |-> phone_number ]
    ELSE [ status      |-> "sent",
           message_sid |-> << "SM", gw.sid >>,
           to          |-> phone_number,
           body        |-> message_body,
           timestamp   |-> now ]

\* the dict send_sms_mock builds
mock_sms_result(phone_number, message_body) ==
    [ status      |-> "simulated",
      message_sid |-> << "SM_MOCK_", Strftime(now) >>,
      to          |-> phone_number,
      body        |-> message_body,
      timestamp   |-> now,
      note        |-> "Demo mode - set TWILIO_* env vars to send real SMS" ]

\* variant: the result is returned and not recorded
send_sms_mock_unrecorded(phone_number, message_body) ==
    LET result == mock_sms_result(phone_number, message_body) IN
    [ result |-> result, SENT_MESSAGES |-> SENT_MESSAGES ]

\* variant: SENT_MESSAGES.insert(0, result)
send_sms_mock_prepending(phone_number, message_body) ==
    LET result == mock_sms_result(phone_number, message_body) IN
    [ result |-> result, SENT_MESSAGES |-> << result >> \o SENT_MESSAGES ]

\* send_sms_mock: the dict it returns and the list it leaves behind
send_sms_mock(phone_number, message_body) ==
    LET result == mock_sms_result(phone_number, message_body) IN
    [ result |-> result, SENT_MESSAGES |-> Append(SENT_MESSAGES, result) ]

\* what a handler hands back: the report, the session log it leaves, the
\* adapters it ran, and whether it ended by an exception
Outcome(rep, sent, ran) ==
    [ response |-> rep, SENT_MESSAGES |-> sent, invoked |-> ran, raised |-> FALSE ]
Propagate(sent, ran) ==
    [ response |-> [ title |-> "<exception>" ], SENT_MESSAGES |-> sent,
      invoked |-> ran, raised |-> TRUE ]

UnknownTool(name) == [ title |-> "Unknown tool", name |-> name ]

\* variant: the mode test inverted
sms_report_swapped(result) ==
    IF result.status \in { "sent", "simulated" }
    THEN [ title       |-> "SMS Notification Sent",
           mode        |-> IF result.status = "sent" THEN "Demo" ELSE "Live",
           to          |-> result.to,
           message_sid |-> result.message_sid,
           timestamp   |-> result.timestamp,
           content     |-> result.body,
           note        |-> Get(result, "note", "") ]
    ELSE [ title |-> "SMS Failed",
           to    |-> result.to,
           error |-> Get(result, "error", "Unknown error") ]

\* the report of a send, from the adapter's result
sms_report(result) ==
    IF result.status \in { "sent", "simulated" }
    THEN [ title       |-> "SMS Notification Sent",
           mode        |-> IF result.status = "sent" THEN "Live" ELSE "Demo",
           to          |-> result.to,
           message_sid |-> result.message_sid,
           timestamp   |-> result.timestamp,
           content     |-> result.body,
           note        |-> Get(result, "note", "") ]
    ELSE [ title |-> "SMS Failed",
           to    |-> result.to,
           error |-> Get(result, "error", "Unknown error") ]

\* variant: a failed Live send is retried through the mock adapter
send_sms_notification_fallback(arguments, gw) ==
    LET phone_number == Get(arguments, "phone_number", "")
        message_body == Get(arguments, "message_body", <<>>)
    IN  IF phone_number = ""
        THEN Outcome([ title |-> "Error", error |-> "Phone number is required" ],
                     SENT_MESSAGES, {})
        ELSE IF ~Truthy(message_body)
        THEN Outcome([ title |-> "Error", error |-> "Message body is required" ],
                     SENT_MESSAGES, {})
        ELSE IF TwilioLive /\ send_sms_real(phone_number, message_body, gw).status = "sent"
        THEN Outcome(sms_report(send_sms_real(phone_number, message_body, gw)),
                     SENT_MESSAGES, { "send_sms_real" })
        ELSE LET m == send_sms_mock(phone_number, message_body) IN
             Outcome(sms_report(m.result), m.SENT_MESSAGES,
                     IF TwilioLive THEN { "send_sms_real", "send_sms_mock" }
                     ELSE { "send_sms_mock" })

\* variant: the body is validated before the phone number
send_sms_notification_bodyfirst(arguments, gw) ==
    LET phone_number == Get(arguments, "phone_number", "")
        message_body == Get(arguments, "message_body", <<>>)
    IN  IF ~Truthy(message_body)
        THEN Outcome([ title |-> "Error", error |-> "Message body is required" ],
                     SENT_MESSAGES, {})
        ELSE IF phone_number = ""
        THEN Outcome([ title |-> "Error", error |-> "Phone number is required" ],
                     SENT_MESSAGES, {})
        ELSE IF TwilioLive
        THEN LET result == send_sms_real(phone_number, message_body, gw) IN
             IF IsException(result)
             THEN Propagate(SENT_MESSAGES, { "send_sms_real" })
             ELSE Outcome(sms_report(result), SENT_MESSAGES, { "send_sms_real" })
        ELSE LET m == send_sms_mock(phone_number, message_body) IN
             Outcome(sms_report(m.result), m.SENT_MESSAGES, { "send_sms_mock" })

\* the branch of call_tool for send_sms_notification
send_sms_notification(arguments, gw) ==
    LET phone_number == Get(arguments, "phone_number", "")
        message_body == Get(arguments, "message_body", <<>>)
    IN  IF phone_number = ""
        THEN Outcome([ title |-> "Error", error |-> "Phone number is required" ],
                     SENT_MESSAGES, {})
        ELSE IF ~Truthy(message_body)
        THEN Outcome([ title |-> "Error", error |-> "Message body is required" ],
                     SENT_MESSAGES, {})
        ELSE IF TwilioLive
        THEN LET result == send_sms_real(phone_number, message_body, gw) IN
             IF IsException(result)
             THEN Propagate(SENT_MESSAGES, { "send_sms_real" })
             ELSE Outcome(sms_report(result), SENT_MESSAGES, { "send_sms_real" })
        ELSE LET m == send_sms_mock(phone_number, message_body) IN
             Outcome(sms_report(m.result), m.SENT_MESSAGES, { "send_sms_mock" })

\* one "### Message i" block of the listing; msg['body'][:50] and
\* len(msg['body']) need a str
listing_entry(msg) ==
    [ to      |-> msg.to,
      status  |-> msg.status,
      time    |-> msg.timestamp,
      content |-> Elide(msg.body, ContentLimit) ]

\* variant: the listing empties the log it has reported
get_sent_messages_draining ==
    Outcome([ title   |-> "Sent Messages",
              total   |-> Len(SENT_MESSAGES),
              entries |-> [ i \in 1..Len(SENT_MESSAGES) |->
                              listing_entry(SENT_MESSAGES[i]) ],
              text    |-> IF SENT_MESSAGES = << >>
                          THEN "No messages have been sent in this session."
                          ELSE "" ],
            << >>, {})

\* the branch of call_tool for get_sent_messages
get_sent_messages ==
    IF SENT_MESSAGES = <<>>
    THEN Outcome([ title |-> "Sent Messages", total |-> 0, entries |-> <<>>,
                   text |-> "No messages have been sent in this session." ],
                 SENT_MESSAGES, {})
    ELSE IF \E i \in 1..Len(SENT_MESSAGES) : ~IsStr(SENT_MESSAGES[i].body)
    THEN Propagate(SENT_MESSAGES, {})
    ELSE Outcome([ title   |-> "Sent Messages",
                   total   |-> Len(SENT_MESSAGES),
                   entries |-> [ i \in 1..Len(SENT_MESSAGES) |->
                                   listing_entry(SENT_MESSAGES[i]) ],
                   text    |-> "" ],
                 SENT_MESSAGES, {})

\* variant: the last elif taken as the else
action_call_tool_fallthrough(name, arguments, gw) ==
    IF name = "send_sms_notification" THEN send_sms_notification(arguments, gw)
    ELSE get_sent_messages

action_call_tool(name, arguments, gw) ==
    IF name = "send_sms_notification" THEN send_sms_notification(arguments, gw)
    ELSE IF name = "get_sent_messages" THEN get_sent_messages
    ELSE Outcome(UnknownTool(name), SENT_MESSAGES, {})

action_list_tools ==
    << [ name       |-> "send_sms_notification",
         properties |-> << "phone_number", "message_body" >>,
         required   |-> << "phone_number", "message_body" >> ],
       [ name       |-> "get_sent_messages",
         properties |-> << >>,
         required   |-> << >> ] >>

-----------------------------------------------------------------------------
(* data_mcp_server.py *)

MOCK_PATIENTS ==
    << [ PatientID |-> "patient-001", patient_name |-> "Maria Garcia",
         RiskScore |-> 95, GapStatus |-> "CRITICAL", last_hba1c_date |-> None,
         glycemic_control |-> "UNKNOWN", days_overdue |-> 365,
         phone_number |-> "+19176649186", preferred_name |-> "Maria",
         preferred_language |-> "Spanish", best_contact_time |-> "Evening" ],
       [ PatientID |-> "patient-002", patient_name |-> "James Wilson",
         RiskScore |-> 88, GapStatus |-> "HIGH", last_hba1c_date |-> "2024-03-15",
         glycemic_control |-> "UNCONTROLLED", days_overdue |-> 260,
         phone_number |-> "+15559876543", preferred_name |-> "Jim",
         preferred_language |-> "English", best_contact_time |-> "Morning" ],
       [ PatientID |-> "patient-003", patient_name |-> "Sarah Johnson",
         RiskScore |-> 72, GapStatus |-> "MODERATE", last_hba1c_date |-> "2024-06-20",
         glycemic_control |-> "ABOVE_TARGET", days_overdue |-> 163,
         phone_number |-> "+15551112222", preferred_name |-> "Sarah",
         preferred_language |-> "English", best_contact_time |-> "Afternoon" ],
       [ PatientID |-> "patient-004", patient_name |-> "Robert Chen",
         RiskScore |-> 65, GapStatus |-> "MODERATE", last_hba1c_date |-> "2024-07-10",
         glycemic_control |-> "ABOVE_TARGET", days_overdue |-> 143,
         phone_number |-> "+15553334444", preferred_name |-> "Bob",
         preferred_language |-> "English", best_contact_time |-> "Morning" ],
       [ PatientID |-> "patient-005", patient_name |-> "Linda Martinez",
         RiskScore |-> 55, GapStatus |-> "MODERATE", last_hba1c_date |-> "2024-08-01",
         glycemic_control |-> "ABOVE_TARGET", days_overdue |-> 121,
         phone_number |-> "+15555556666", preferred_name |-> "Linda",
         preferred_language |-> "Spanish", best_contact_time |-> "Evening" ] >>

PATIENT_DETAILS_fallback(patient_id) ==
    IF \E i \in 1..Len(MOCK_PATIENTS) : MOCK_PATIENTS[i].PatientID = patient_id
    THEN MOCK_PATIENTS[CHOOSE i \in 1..Len(MOCK_PATIENTS) :
                          MOCK_PATIENTS[i].PatientID = patient_id]
    ELSE MOCK_PATIENTS[1]

\* PATIENT_DETAILS.get(patient_id): {p["PatientID"]: p for p in MOCK_PATIENTS}
PATIENT_DETAILS(patient_id) ==
    IF \E i \in 1..Len(MOCK_PATIENTS) : MOCK_PATIENTS[i].PatientID = patient_id
    THEN MOCK_PATIENTS[CHOOSE i \in 1..Len(MOCK_PATIENTS) :
                          /\ MOCK_PATIENTS[i].PatientID = patient_id
                          /\ \A j \in (i + 1)..Len(MOCK_PATIENTS) :
                                MOCK_PATIENTS[j].PatientID # patient_id]
    ELSE None

\* if DATABRICKS_HOST and DATABRICKS_TOKEN:
DatabricksLive == DATABRICKS_HOST # "" /\ DATABRICKS_TOKEN # ""

\* if FIREMETRICS_DB_HOST:
FiremetricsLive == FIREMETRICS_DB_HOST # ""

\* what the warehouse connection can do: raise, or return columns and rows
WarehouseOutcomes ==
    { [ raises |-> TRUE,  columns |-> << >>, rows |-> << >> ],
      [ raises |-> FALSE, columns |-> << "n" >>, rows |-> << >> ],
      [ raises |-> FALSE, columns |-> << "n" >>, rows |-> << << 1 >> >> ] }

\* dict(zip(columns, row))
ZipDict(columns, row) ==
    [ c \in { columns[i] : i \in 1..Len(columns) } |->
        row[CHOOSE i \in 1..Len(columns) :
               /\ columns[i] = c
               /\ \A j \in (i + 1)..Len(columns) : columns[j] # c] ]

execute_databricks_sql_real(sql_query, wh) ==
    IF wh.raises
    THEN [ status |-> "error", error |-> "warehouse" ]
    ELSE [ status    |-> "success",
           row_count |-> Len(wh.rows),
           columns   |-> wh.columns,
           data      |-> [ i \in 1..Len(wh.rows) |-> ZipDict(wh.columns, wh.rows[i]) ] ]

MockQueryKeyword_casesensitive(sql_query) ==
    \/ Contains(<< "p","a","t","i","e","n","t" >>, sql_query)
    \/ Contains(<< "r","i","s","k" >>, sql_query)
    \/ Contains(<< "g","a","p" >>, sql_query)

\* "patient" in sql_lower or "risk" in sql_lower or "gap" in sql_lower
MockQueryKeyword(sql_query) ==
    LET sql_lower == Lower(sql_query) IN
    \/ Contains(<< "p","a","t","i","e","n","t" >>, sql_lower)
    \/ Contains(<< "r","i","s","k" >>, sql_lower)
    \/ Contains(<< "g","a","p" >>, sql_lower)

execute_databricks_sql_mock(sql_query) ==
    IF MockQueryKeyword(sql_query)
    THEN [ status    |-> "success",
           source    |-> "mock_data",
           note      |-> "Using mock data - set DATABRICKS_* env vars for real connection",
           row_count |-> Len(MOCK_PATIENTS),
           columns   |-> << "PatientID", "patient_name", "RiskScore", "GapStatus",
                            "last_hba1c_date", "days_overdue", "glycemic_control" >>,
           data      |-> [ i \in 1..Len(MOCK_PATIENTS) |->
                             LET p == MOCK_PATIENTS[i] IN
                             [ PatientID        |-> p.PatientID,
                               patient_name     |-> p.patient_name,
                               RiskScore        |-> p.RiskScore,
                               GapStatus        |-> p.GapStatus,
                               last_hba1c_date  |-> p.last_hba1c_date,
                               days_overdue     |-> p.days_overdue,
                               glycemic_control |-> p.glycemic_control ] ] ]
    ELSE [ status    |-> "success",
           source    |-> "mock_data",
           row_count |-> 0,
           columns   |-> << >>,
           data      |-> << >>,
           message   |-> "Query executed (mock mode - no matching data)" ]

\* str(value) of a table cell
Str(value) == [ str |-> value ]

\* the report of a query, from the adapter's result
query_report(result) ==
    IF result.status = "success"
    THEN LET shown == Prefix(result.data, DisplayLimit) IN
         [ title         |-> "Databricks Query Results",
           status        |-> "Success",
           rows_returned |-> result.row_count,
           mode          |-> IF Get(result, "source", "") = "mock_data"
                             THEN "Demo (mock data)" ELSE "",
           note          |-> "",
           header        |-> IF result.data # << >> THEN result.columns ELSE << >>,
           table         |-> [ r \in 1..Len(shown) |->
                                 [ c \in 1..Len(result.columns) |->
                                     Str(Get(shown[r], result.columns[c], "")) ] ],
           more          |-> IF result.data # << >> /\ result.row_count > DisplayLimit
                             THEN result.row_count - DisplayLimit ELSE 0 ]
    ELSE [ title |-> "Query Error", error |-> Get(result, "error", "Unknown error") ]

\* the branch of call_tool for execute_databricks_sql
execute_databricks_sql(arguments, wh) ==
    LET sql_query == Get(arguments, "sql_query", << >>) IN
    IF ~IsStr(sql_query)
    THEN Propagate(SENT_MESSAGES, {})
    ELSE IF DatabricksLive
    THEN LET result == execute_databricks_sql_real(sql_query, wh) IN
         IF IsException(result)
         THEN Propagate(SENT_MESSAGES, { "execute_databricks_sql_real" })
         ELSE Outcome(query_report(result), SENT_MESSAGES,
                      { "execute_databricks_sql_real" })
    ELSE Outcome(query_report(execute_databricks_sql_mock(sql_query)),
                 SENT_MESSAGES, { "execute_databricks_sql_mock" })

\* what the patient store can do: raise, find no row, or return a row
StoreOutcomes == { "raises", "no row", "row" }

lookup_patient_details_real(patient_id, db) ==
    IF db = "raises" THEN [ error |-> "store" ]
    ELSE IF db = "row"
    THEN [ patient_id         |-> patient_id,
           preferred_name     |-> "Given",
           phone_number       |-> "+15550001111",
           preferred_language |-> "English" ]
    ELSE None

lookup_patient_details_mock(patient_id) ==
    LET patient == PATIENT_DETAILS(patient_id) IN
    IF ~IsNone(patient)
    THEN [ patient_id         |-> patient.PatientID,
           preferred_name     |-> patient.preferred_name,
           phone_number       |-> patient.phone_number,
           preferred_language |-> patient.preferred_language,
           best_contact_time  |-> patient.best_contact_time,
           source             |-> "mock_data" ]
    ELSE None

\* the report of a lookup, from the adapter's result
lookup_report(result, patient_id) ==
    IF ~IsNone(result)
    THEN IF "error" \in DOMAIN result
         THEN [ title |-> "Lookup Error", error |-> result.error ]
         ELSE [ title              |-> "Patient Details (Firemetrics)",
                patient_id         |-> Get(result, "patient_id", patient_id),
                preferred_name     |-> Get(result, "preferred_name", "N/A"),
                phone_number       |-> Get(result, "phone_number", "N/A"),
                preferred_language |-> Get(result, "preferred_language", "English"),
                best_contact_time  |-> Get(result, "best_contact_time", "Any time"),
                mode               |-> "",
                note               |-> IF Get(result, "source", "") = "mock_data"
                                       THEN "Using demo data - set FIREMETRICS_* env vars for real connection"
                                       ELSE "" ]
    ELSE [ title |-> "Patient Not Found", patient_id |-> patient_id ]

\* the branch of call_tool for lookup_patient_details
lookup_patient_details(arguments, db) ==
    LET patient_id == Get(arguments, "patient_id", "") IN
    IF FiremetricsLive
    THEN LET result == lookup_patient_details_real(patient_id, db) IN
         IF IsException(result)
         THEN Propagate(SENT_MESSAGES, { "lookup_patient_details_real" })
         ELSE Outcome(lookup_report(result, patient_id), SENT_MESSAGES,
                      { "lookup_patient_details_real" })
    ELSE Outcome(lookup_report(lookup_patient_details_mock(patient_id), patient_id),
                 SENT_MESSAGES, { "lookup_patient_details_mock" })

data_call_tool(name, arguments, wh, db) ==
    IF name = "execute_databricks_sql" THEN execute_databricks_sql(arguments, wh)
    ELSE IF name = "lookup_patient_details" THEN lookup_patient_details(arguments, db)
    ELSE Outcome(UnknownTool(name), SENT_MESSAGES, {})

data_list_tools ==
    << [ name       |-> "execute_databricks_sql",
         properties |-> << "sql_query" >>,
         required   |-> << "sql_query" >> ],
       [ name       |-> "lookup_patient_details",
         properties |-> << "patient_id" >>,
         required   |-> << "patient_id" >> ] >>

-----------------------------------------------------------------------------
(* cql_mcp_server.py *)

\* "diabetes" in cql_lower or "hba1c" in cql_lower or "a1c" in cql_lower
DiabetesKeyword(cql_lower) ==
    \/ Contains(<< "d","i","a","b","e","t","e","s" >>, cql_lower)
    \/ Contains(<< "h","b","a","1","c" >>, cql_lower)
    \/ Contains(<< "a","1","c" >>, cql_lower)

\* "breast" in cql_lower or "mammog" in cql_lower or "cms125" in cql_lower
BreastKeyword(cql_lower) ==
    \/ Contains(<< "b","r","e","a","s","t" >>, cql_lower)
    \/ Contains(<< "m","a","m","m","o","g" >>, cql_lower)
    \/ Contains(<< "c","m","s","1","2","5" >>, cql_lower)

convert_cql_to_sql_breastfirst(cql_logic, target_dialect) ==
    LET cql_lower == Lower(cql_logic) IN
    IF BreastKeyword(cql_lower)
    THEN [ template |-> "breast_cancer_screening", dialect |-> "", original |-> << >> ]
    ELSE IF DiabetesKeyword(cql_lower)
    THEN [ template |-> "diabetes_hba1c_gap", dialect |-> "", original |-> << >> ]
    ELSE [ template |-> "generic",
           dialect  |-> target_dialect,
           original |-> Elide(cql_logic, CqlSnippetLimit) ]

\* the SQL text returned: a fixed template of CQL_TO_SQL_TEMPLATES, or the
\* generic f-string with its two substitutions
convert_cql_to_sql(cql_logic, target_dialect) ==
    LET cql_lower == Lower(cql_logic) IN
    IF ~IsStr(cql_logic) THEN Exception("AttributeError")
    ELSE IF DiabetesKeyword(cql_lower)
    THEN [ template |-> "diabetes_hba1c_gap", dialect |-> "", original |-> << >> ]
    ELSE IF BreastKeyword(cql_lower)
    THEN [ template |-> "breast_cancer_screening", dialect |-> "", original |-> << >> ]
    ELSE [ template |-> "generic",
           dialect  |-> target_dialect,
           original |-> Elide(cql_logic, CqlSnippetLimit) ]

validate_cql(cql_expression) ==
    IF Truthy(cql_expression) /\ ~IsStr(cql_expression)
    THEN Exception("AttributeError")
    ELSE IF ~Truthy(cql_expression) \/ Strip(cql_expression) = << >>
    THEN [ valid |-> FALSE, errors |-> << "CQL expression cannot be empty" >> ]
    ELSE LET w1 == IF ~Contains(<< "d","e","f","i","n","e" >>, Lower(cql_expression))
                   THEN << "Consider using 'define' statements for reusable expressions" >>
                   ELSE << >>
             w2 == IF ~Contains(<< "l","i","b","r","a","r","y" >>, Lower(cql_expression))
                   THEN << "Missing library declaration - recommended for production CQL" >>
                   ELSE << >>
             warnings == w1 \o w2
         IN  [ valid    |-> TRUE,
               warnings |-> warnings,
               message  |-> "CQL expression is syntactically valid" ]

\* the branch of call_tool for convert_cql_to_sql
convert_cql_to_sql_tool(arguments) ==
    LET cql_logic      == Get(arguments, "cql_logic", << >>)
        target_dialect == Get(arguments, "target_dialect", "spark-sql")
        sql            == convert_cql_to_sql(cql_logic, target_dialect)
    IN  IF IsException(sql)
        THEN Propagate(SENT_MESSAGES, { "convert_cql_to_sql" })
        ELSE
        Outcome([ title          |-> "CQL to SQL Conversion Complete",
                  target_dialect |-> target_dialect,
                  status         |-> "Success",
                  sql            |-> sql ],
                SENT_MESSAGES, { "convert_cql_to_sql" })

\* the branch of call_tool for validate_cql
validate_cql_tool(arguments) ==
    LET cql_expression == Get(arguments, "cql_expression", << >>)
        result         == validate_cql(cql_expression)
    IN  IF IsException(result)
        THEN Propagate(SENT_MESSAGES, { "validate_cql" })
        ELSE
        Outcome([ title    |-> "CQL Validation Result",
                  status   |-> IF result.valid THEN "Valid" ELSE "Invalid",
                  errors   |-> Get(result, "errors", << >>),
                  warnings |-> Get(result, "warnings", << >>),
                  message  |-> Get(result, "message", "") ],
                SENT_MESSAGES, { "validate_cql" })

cql_call_tool(name, arguments) ==
    IF name = "convert_cql_to_sql" THEN convert_cql_to_sql_tool(arguments)
    ELSE IF name = "validate_cql" THEN validate_cql_tool(arguments)
    ELSE Outcome(UnknownTool(name), SENT_MESSAGES, {})

cql_list_tools ==
    << [ name       |-> "convert_cql_to_sql",
         properties |-> << "cql_logic", "target_dialect" >>,
         required   |-> << "cql_logic" >>,
         enum       |-> [ target_dialect |->
                            { "spark-sql", "snowflake", "bigquery", "postgresql" } ] ],
       [ name       |-> "validate_cql",
         properties |-> << "cql_expression" >>,
         required   |-> << "cql_expression" >> ] >>

-----------------------------------------------------------------------------
(* The requests the model issues *)

\* every tool name of the three servers, and one that no server registers
ToolNames ==
    { "send_sms_notification", "get_sent_messages", "execute_databricks_sql",
      "lookup_patient_details", "convert_cql_to_sql", "validate_cql", "no_such_tool" }

Reminder == << "R","e","m","i","n","d","e","r" >>
LongBody == [ i \in 1..(ContentLimit + 1) |-> "x" ]

Phones == { "", "+15550000000" }
Bodies == { << >>, Reminder, LongBody }

ActionArguments ==
    { Arg(hp, "phone_number", p) @@ Arg(hb, "message_body", b) :
        hp \in BOOLEAN, p \in Phones, hb \in BOOLEAN, b \in Bodies }

\* the arguments tried with a name: the full range for the tool that reads
\* them, no arguments and one complete mapping for every other name
ActionSends(name) ==
    IF name = "send_sms_notification" THEN ActionArguments
    ELSE { << >>, [ phone_number |-> "+15550000000", message_body |-> Reminder ] }

\* the gateway is reached by a send that passed validation in Live mode
GatewayFor(name, arguments) ==
    IF /\ name = "send_sms_notification"
       /\ TwilioLive
       /\ Get(arguments, "phone_number", "") # ""
       /\ Get(arguments, "message_body", << >>) # << >>
    THEN GatewayOutcomes
    ELSE { CHOOSE gw \in GatewayOutcomes : TRUE }

Queries ==
    { << >>,
      << "S","E","L","E","C","T"," ","R","I","S","K" >>,
      << "f","r","o","m"," ","P","a","t","i","e","n","t" >>,
      << "c","a","r","e"," ","G","A","P","s" >>,
      << "s","e","l","e","c","t"," ","1" >> }
PatientIds ==
    { "", "patient-001", "patient-005", "PATIENT-001", "patient-00",
      "does-not-exist" }

DataCalls(name) ==
    IF name = "execute_databricks_sql"
    THEN { Arg(hq, "sql_query", q) : hq \in BOOLEAN, q \in Queries }
    ELSE IF name = "lookup_patient_details"
    THEN { Arg(hi, "patient_id", i) : hi \in BOOLEAN, i \in PatientIds }
    ELSE { << >>, [ sql_query |-> << "s","e","l","e","c","t"," ","1" >>,
                    patient_id |-> "patient-001" ] }

WarehouseFor(name) ==
    IF name = "execute_databricks_sql" /\ DatabricksLive
    THEN WarehouseOutcomes
    ELSE { CHOOSE wh \in WarehouseOutcomes : TRUE }

StoreFor(name) ==
    IF name = "lookup_patient_details" /\ FiremetricsLive
    THEN StoreOutcomes
    ELSE { CHOOSE db \in StoreOutcomes : TRUE }

CqlTexts ==
    { << >>,
      << " " >>,
      << "H","b","A","1","c" >>,
      << "A","1","C"," ","B","r","e","a","s","t" >>,
      << "d","e","f","i","n","e"," ","M","a","m","m","o","g" >>,
      << "l","i","b","r","a","r","y"," ","X" >> }
Dialects == { "spark-sql", "snowflake", "mysql" }

CqlCalls(name) ==
    IF name = "convert_cql_to_sql"
    THEN { Arg(hl, "cql_logic", l) @@ Arg(hd, "target_dialect", d) :
             hl \in BOOLEAN, l \in CqlTexts, hd \in BOOLEAN, d \in Dialects }
    ELSE IF name = "validate_cql"
    THEN { Arg(he, "cql_expression", e) : he \in BOOLEAN, e \in CqlTexts }
    ELSE { << >>, [ cql_logic |-> << "H","b","A","1","c" >>,
                    cql_expression |-> << "H","b","A","1","c" >> ] }

\* arguments whose value is a JSON number where the schema says string
Number == PyInt(<< "7" >>)

ActionSendsAnyJson(name) ==
    IF name = "send_sms_notification"
    THEN { [ phone_number |-> "+15550000000", message_body |-> Number ] }
    ELSE { }

DataCallsAnyJson(name) ==
    IF name = "execute_databricks_sql" THEN { [ sql_query |-> Number ] }
    ELSE { }

CqlCallsAnyJson(name) ==
    IF name = "convert_cql_to_sql"
    THEN { [ cql_logic |-> Number, target_dialect |-> "spark-sql" ] }
    ELSE IF name = "validate_cql" THEN { [ cql_expression |-> Number ] }
    ELSE { }

-----------------------------------------------------------------------------
(* The process *)

EnvNames ==
    { "TWILIO_ACCOUNT_SID", "TWILIO_AUTH_TOKEN", "TWILIO_FROM_NUMBER",
      "DATABRICKS_HOST", "DATABRICKS_TOKEN", "DATABRICKS_HTTP_PATH",
      "FIREMETRICS_DB_HOST", "FIREMETRICS_DB_USER", "FIREMETRICS_DB_PASSWORD" }

\* the variables each program reads
EnvRead(p) ==
    IF p = "action"
    THEN { "TWILIO_ACCOUNT_SID", "TWILIO_AUTH_TOKEN", "TWILIO_FROM_NUMBER" }
    ELSE IF p = "data"
    THEN { "DATABRICKS_HOST", "DATABRICKS_TOKEN", "DATABRICKS_HTTP_PATH",
           "FIREMETRICS_DB_HOST", "FIREMETRICS_DB_USER", "FIREMETRICS_DB_PASSWORD" }
    ELSE { }

NoListing == [ title |-> "<none>" ]

Init ==
    /\ process \in { "action", "data", "cql" }
    /\ environ \in [ EnvNames -> { "", "set" } ]
    /\ \A n \in EnvNames \ EnvRead(process) : environ[n] = ""
    /\ TWILIO_ACCOUNT_SID = environ["TWILIO_ACCOUNT_SID"]
    /\ TWILIO_AUTH_TOKEN = environ["TWILIO_AUTH_TOKEN"]
    /\ TWILIO_FROM_NUMBER = environ["TWILIO_FROM_NUMBER"]
    /\ DATABRICKS_HOST = environ["DATABRICKS_HOST"]
    /\ DATABRICKS_TOKEN = environ["DATABRICKS_TOKEN"]
    /\ DATABRICKS_HTTP_PATH = environ["DATABRICKS_HTTP_PATH"]
    /\ FIREMETRICS_DB_HOST = environ["FIREMETRICS_DB_HOST"]
    /\ SENT_MESSAGES = << >>
    /\ now = 0
    /\ request = [ op |-> "start" ]
    /\ response = [ title |-> "<none>" ]
    /\ invoked = { }
    /\ raised = FALSE
    /\ external_fault = FALSE
    /\ store_reply = ""
    /\ tasks = << >>
    /\ holder = 0
    /\ completed = << >>
    /\ used = { }
    /\ confirmed_sends = << >>
    /\ last_listing = NoListing

\* the handler has returned out: the variables a call leaves behind
Served(name, arguments, out, fault, reply) ==
    /\ external_fault' = fault
    /\ store_reply' = reply
    /\ request' = [ op |-> "call_tool", name |-> name, arguments |-> arguments ]
    /\ response' = out.response
    /\ SENT_MESSAGES' = out.SENT_MESSAGES
    /\ invoked' = out.invoked
    /\ raised' = out.raised
    /\ used' = used \cup out.invoked
    /\ confirmed_sends' =
          IF out.response.title = "SMS Notification Sent"
          THEN Append(confirmed_sends,
                      [ to   |-> arguments.phone_number,
                        body |-> arguments.message_body,
                        mode |-> out.response.mode ])
          ELSE confirmed_sends
    /\ last_listing' =
          IF out.response.title = "Sent Messages" THEN out.response ELSE last_listing
    /\ UNCHANGED << config, now >>

ActionServe(name, arguments) ==
    \E gw \in GatewayFor(name, arguments) :
       /\ UNCHANGED loop
       /\ name = "send_sms_notification" => Len(confirmed_sends) < MaxSends
       /\ Served(name, arguments, action_call_tool(name, arguments, gw),
                 "send_sms_real" \in action_call_tool(name, arguments, gw).invoked
                    /\ gw.raises,
                 "")

ActionCallTool ==
    /\ process = "action"
    /\ \E name \in ToolNames :
       \E arguments \in ActionSends(name) : ActionServe(name, arguments)

DataServe(name, arguments) ==
    \E wh \in WarehouseFor(name), db \in StoreFor(name) :
       LET out == data_call_tool(name, arguments, wh, db) IN
       /\ UNCHANGED loop
       /\ Served(name, arguments, out,
                 \/ "execute_databricks_sql_real" \in out.invoked /\ wh.raises
                 \/ "lookup_patient_details_real" \in out.invoked /\ db = "raises",
                 IF "lookup_patient_details_real" \in out.invoked THEN db ELSE "")

DataCallTool ==
    /\ process = "data"
    /\ \E name \in ToolNames :
       \E arguments \in DataCalls(name) : DataServe(name, arguments)

CqlServe(name, arguments) ==
    /\ UNCHANGED loop
    /\ Served(name, arguments, cql_call_tool(name, arguments), FALSE, "")

CqlCallTool ==
    /\ process = "cql"
    /\ \E name \in ToolNames :
       \E arguments \in CqlCalls(name) : CqlServe(name, arguments)

list_tools_reordered ==
    LET declared == IF process = "action" THEN action_list_tools
                    ELSE IF process = "data" THEN data_list_tools
                    ELSE cql_list_tools
    IN  IF used = { } THEN declared
        ELSE [ i \in 1..Len(declared) |-> declared[Len(declared) + 1 - i] ]

\* the registry of the running program
list_tools ==
    IF process = "action" THEN action_list_tools
    ELSE IF process = "data" THEN data_list_tools
    ELSE cql_list_tools

ListTools ==
    /\ request' = [ op |-> "list_tools" ]
    /\ response' = [ title |-> "<tools>", tools |-> list_tools ]
    /\ invoked' = { }
    /\ raised' = FALSE
    /\ external_fault' = FALSE
    /\ store_reply' = ""
    /\ UNCHANGED << config, now, SENT_MESSAGES, used, confirmed_sends,
                    last_listing, loop >>

\* time passes between calls; only action_mcp_server.py reads the clock
Tick ==
    /\ process = "action"
    /\ now < MaxClock
    /\ now' = now + 1
    /\ UNCHANGED << config, SENT_MESSAGES, request, response, invoked, raised,
                    external_fault, store_reply, used, confirmed_sends,
                    last_listing, loop >>

Next ==
    \/ ActionCallTool
    \/ DataCallTool
    \/ CqlCallTool
    \/ ListTools
    \/ Tick

Spec == Init /\ [][Next]_vars

(* The same servers called with arguments of any JSON type: call_tool      *)
(* receives the mapping as the client sent it, a number in place of a      *)
(* string included.                                                        *)

ActionCallToolAnyJson ==
    /\ process = "action"
    /\ \E name \in ToolNames :
       \E arguments \in ActionSends(name) \cup ActionSendsAnyJson(name) :
          ActionServe(name, arguments)

DataCallToolAnyJson ==
    /\ process = "data"
    /\ \E name \in ToolNames :
       \E arguments \in DataCalls(name) \cup DataCallsAnyJson(name) :
          DataServe(name, arguments)

CqlCallToolAnyJson ==
    /\ process = "cql"
    /\ \E name \in ToolNames :
       \E arguments \in CqlCalls(name) \cup CqlCallsAnyJson(name) :
          CqlServe(name, arguments)

NextAnyJson ==
    \/ ActionCallToolAnyJson
    \/ DataCallToolAnyJson
    \/ CqlCallToolAnyJson
    \/ ListTools
    \/ Tick

SpecAnyJson == Init /\ [][NextAnyJson]_vars

(* The action server under its event loop.  asyncio.run(main()) runs one   *)
(* loop on one thread; server.run turns each request it reads into a       *)
(* call_tool coroutine.  A coroutine keeps the thread from the moment the  *)
(* loop starts it until it awaits or returns; a blocking call made by an   *)
(* adapter keeps the thread as well.                                       *)

\* requests the loop may hold at once
MaxTasks == 2

\* variant: the handler awaits between its adapter call and its return
Suspends_awaiting == TRUE

\* call_tool awaits somewhere between its first and its last statement
Suspends == FALSE

\* the requests sent to the server under its loop
LoopCalls ==
    { [ name |-> "send_sms_notification",
        arguments |-> [ phone_number |-> "+15550000000", message_body |-> b ] ] :
          b \in { Reminder, LongBody } }
    \cup { [ name |-> "get_sent_messages", arguments |-> << >> ] }

Running == { i \in DOMAIN tasks : tasks[i].pc = "running" }

\* server.run reads a request and schedules its handler
Admit ==
    /\ Len(tasks) < MaxTasks
    /\ \E c \in LoopCalls :
          tasks' = Append(tasks, [ name      |-> c.name,
                                   arguments |-> c.arguments,
                                   pc        |-> "ready",
                                   out       |-> Outcome([ title |-> "<pending>" ],
                                                         << >>, { }),
                                   fault     |-> FALSE ])
    /\ UNCHANGED << config, now, SENT_MESSAGES, request, response, invoked,
                    raised, external_fault, store_reply, used, confirmed_sends,
                    last_listing, holder, completed >>

\* the loop starts a scheduled handler on its free thread: the handler runs
\* its statements, adapter call included, and keeps the thread unless it
\* awaits
Begin ==
    /\ holder = 0
    /\ \E i \in DOMAIN tasks :
       \E gw \in GatewayFor(tasks[i].name, tasks[i].arguments) :
          LET out == action_call_tool(tasks[i].name, tasks[i].arguments, gw) IN
          /\ tasks[i].pc = "ready"
          /\ tasks' = [ tasks EXCEPT ![i].pc = "running",
                                     ![i].out = out,
                                     ![i].fault = "send_sms_real" \in out.invoked
                                                     /\ gw.raises ]
          /\ SENT_MESSAGES' = out.SENT_MESSAGES
          /\ holder' = IF Suspends THEN 0 ELSE i
    /\ UNCHANGED << config, now, request, response, invoked, raised,
                    external_fault, store_reply, used, confirmed_sends,
                    last_listing, completed >>

\* the handler returns its report and gives the thread back
End ==
    \E i \in DOMAIN tasks :
       /\ tasks[i].pc = "running"
       /\ holder \in { 0, i }
       /\ tasks' = [ tasks EXCEPT ![i].pc = "done" ]
       /\ holder' = 0
       /\ completed' = Append(completed, i)
       /\ Served(tasks[i].name, tasks[i].arguments,
                 [ tasks[i].out EXCEPT !.SENT_MESSAGES = SENT_MESSAGES ],
                 tasks[i].fault, "")

InitLoop == Init /\ process = "action"

NextLoop ==
    \/ Admit
    \/ Begin
    \/ End
    \/ Tick

SpecLoop == InitLoop /\ [][NextLoop]_vars

-----------------------------------------------------------------------------
(* Vocabulary of the properties *)

IsCall == request.op = "call_tool"

\* the names the running server registers
Registered == { list_tools[i].name : i \in 1..Len(list_tools) }

\* the parameters the descriptor of a registered tool declares required
RequiredOf(name) ==
    LET d == list_tools[CHOOSE i \in 1..Len(list_tools) : list_tools[i].name = name]
    IN  { d.required[i] : i \in 1..Len(d.required) }

LiveAdapters ==
    { "send_sms_real", "execute_databricks_sql_real", "lookup_patient_details_real" }
MockAdapters ==
    { "send_sms_mock", "execute_databricks_sql_mock", "lookup_patient_details_mock" }

\* a report that rejects the arguments
IsValidationFailure(rep) ==
    \/ rep.title = "Error"
    \/ rep.title = "CQL Validation Result" /\ rep.status = "Invalid"

\* the last call named a registered tool and left out a required parameter
OmitsRequired ==
    /\ IsCall
    /\ request.name \in Registered
    /\ \E r \in RequiredOf(request.name) : r \notin DOMAIN request.arguments

\* the integrations: each one's tool, its two adapters, and the
\* configuration values its program's documentation names
Integrations ==
    { [ tool |-> "send_sms_notification",
        live |-> "send_sms_real", mock |-> "send_sms_mock",
        settings |-> { "TWILIO_ACCOUNT_SID", "TWILIO_AUTH_TOKEN", "TWILIO_FROM_NUMBER" } ],
      [ tool |-> "execute_databricks_sql",
        live |-> "execute_databricks_sql_real", mock |-> "execute_databricks_sql_mock",
        settings |-> { "DATABRICKS_HOST", "DATABRICKS_TOKEN", "DATABRICKS_HTTP_PATH" } ],
      [ tool |-> "lookup_patient_details",
        live |-> "lookup_patient_details_real", mock |-> "lookup_patient_details_mock",
        settings |-> { "FIREMETRICS_DB_HOST", "FIREMETRICS_DB_USER",
                       "FIREMETRICS_DB_PASSWORD" } ] }

\* the value the process holds for a setting: the module global read at
\* import, or os.environ for the two the store adapter reads at call time
Setting(n) ==
    CASE n = "TWILIO_ACCOUNT_SID"   -> TWILIO_ACCOUNT_SID
      [] n = "TWILIO_AUTH_TOKEN"    -> TWILIO_AUTH_TOKEN
      [] n = "TWILIO_FROM_NUMBER"   -> TWILIO_FROM_NUMBER
      [] n = "DATABRICKS_HOST"      -> DATABRICKS_HOST
      [] n = "DATABRICKS_TOKEN"     -> DATABRICKS_TOKEN
      [] n = "DATABRICKS_HTTP_PATH" -> DATABRICKS_HTTP_PATH
      [] n = "FIREMETRICS_DB_HOST"  -> FIREMETRICS_DB_HOST
      [] OTHER                      -> environ[n]

\* the last call reached the point where the handler picks a backend
ReachedBackend(i) ==
    /\ IsCall
    /\ request.name = i.tool
    /\ request.name \in Registered
    /\ ~IsValidationFailure(response)

-----------------------------------------------------------------------------
(* C1 *)

\* C1 (as claimed): a call of a registered tool whose arguments omit a
\* required parameter returns a validation failure report, runs neither a
\* Live nor a Mock adapter, and leaves SENT_MESSAGES as it was.
C1_MissingRequiredRejected ==
    [][ OmitsRequired' =>
          /\ IsValidationFailure(response')
          /\ invoked' \cap (LiveAdapters \cup MockAdapters) = { }
          /\ SENT_MESSAGES' = SENT_MESSAGES ]_vars

\* the data server, unconfigured, has answered execute_databricks_sql({})
\* through the mock adapter with a success report
C1_Witness ==
    /\ process = "data"
    /\ OmitsRequired
    /\ request.name = "execute_databricks_sql"
    /\ request.arguments = << >>
    /\ invoked = { "execute_databricks_sql_mock" }
    /\ response.title = "Databricks Query Results"

(* C2 *)

\* C2: a call whose name the running server does not register returns the
\* "Unknown tool: <name>" report naming that tool, runs no adapter, raises
\* nothing and leaves SENT_MESSAGES as it was, whatever the arguments and the
\* state the earlier calls left.
C2_UnknownToolRejected ==
    [][ (IsCall' /\ request'.name \notin Registered') =>
          /\ response' = [ title |-> "Unknown tool", name |-> request'.name ]
          /\ invoked' = { }
          /\ ~raised'
          /\ SENT_MESSAGES' = SENT_MESSAGES ]_vars

\* an unknown name, called with arguments, after sends were recorded
C2_Witness ==
    /\ process = "action"
    /\ IsCall
    /\ request.name = "no_such_tool"
    /\ request.arguments # << >>
    /\ SENT_MESSAGES # << >>
    /\ response.title = "Unknown tool"

(* C3 *)

\* C3: for each integration the backend is fixed by the configuration read
\* at start: with none of its settings present no call ever runs the Live
\* adapter, with all of them present no call ever runs the Mock adapter, a
\* process never runs both adapters of one integration, and every call that
\* reaches backend selection runs exactly one of the two.
C3_BackendFixedByConfiguration ==
    \A i \in Integrations :
       /\ (\A n \in i.settings : Setting(n) = "") => i.live \notin used
       /\ (\A n \in i.settings : Setting(n) # "") => i.mock \notin used
       /\ ~(i.live \in used /\ i.mock \in used)
       /\ ReachedBackend(i) => invoked \in { { i.live }, { i.mock } }

\* a fully configured action server has sent twice, with different
\* arguments, both times through the Live adapter
C3_Witness ==
    /\ process = "action"
    /\ \A n \in { "TWILIO_ACCOUNT_SID", "TWILIO_AUTH_TOKEN", "TWILIO_FROM_NUMBER" } :
          Setting(n) # ""
    /\ Len(confirmed_sends) = 2
    /\ confirmed_sends[1].body # confirmed_sends[2].body
    /\ \A k \in 1..2 : confirmed_sends[k].mode = "Live"
    /\ IsCall
    /\ request.name = "send_sms_notification"
    /\ response.title = "SMS Notification Sent"
    /\ invoked = { "send_sms_real" }

(* C4 *)

\* C4 (as claimed): an integration with any one of its settings empty never
\* runs its Live adapter.
C4_IncompleteConfigurationIsMock ==
    \A i \in Integrations :
       (\E n \in i.settings : Setting(n) = "") => i.live \notin used

\* account SID and auth token set, from-number empty: the Live adapter ran
C4_Witness ==
    /\ process = "action"
    /\ TWILIO_ACCOUNT_SID # ""
    /\ TWILIO_AUTH_TOKEN # ""
    /\ TWILIO_FROM_NUMBER = ""
    /\ IsCall
    /\ request.name = "send_sms_notification"
    /\ invoked = { "send_sms_real" }

(* C5 *)

SuccessTitles ==
    { "SMS Notification Sent", "Databricks Query Results",
      "Patient Details (Firemetrics)" }

\* the last call returned a success report built from an adapter's result
AdapterSuccess == IsCall /\ response.title \in SuccessTitles

\* the report marks its result as demo data: a Mode line that starts with
\* "Demo", or the demo-data notice of the lookup
ReadsDemo(rep) ==
    \/ rep.mode \in { "Demo", "Demo (mock data)" }
    \/ rep.note = "Using demo data - set FIREMETRICS_* env vars for real connection"

MockMessaging == process = "action" /\ ~TwilioLive

\* the last call was a send with a phone number and a body
SendWithBoth ==
    /\ IsCall
    /\ request.name = "send_sms_notification"
    /\ Get(request.arguments, "phone_number", "") # ""
    /\ Get(request.arguments, "message_body", << >>) # << >>

IsListing == IsCall /\ request.name = "get_sent_messages"

\* what C6 holds apart from the content of a listing entry
C6_SendsRecorded ==
    /\ Len(SENT_MESSAGES) = Len(confirmed_sends)
    /\ \A k \in 1..Len(confirmed_sends) :
          /\ SENT_MESSAGES[k].to = confirmed_sends[k].to
          /\ SENT_MESSAGES[k].body = confirmed_sends[k].body
    /\ SendWithBoth =>
          /\ response.title = "SMS Notification Sent"
          /\ response.message_sid[1] = "SM_MOCK_"
          /\ SENT_MESSAGES # << >>
          /\ SENT_MESSAGES[Len(SENT_MESSAGES)].to = request.arguments.phone_number
          /\ SENT_MESSAGES[Len(SENT_MESSAGES)].body = request.arguments.message_body
          /\ SENT_MESSAGES[Len(SENT_MESSAGES)].message_sid = response.message_sid
    /\ IsListing =>
          /\ response.total = Len(confirmed_sends)
          /\ Len(response.entries) = Len(confirmed_sends)
          /\ \A k \in 1..Len(confirmed_sends) :
                response.entries[k].to = confirmed_sends[k].to

\* C6 (as claimed): in Mock mode every send with a phone number and a body
\* succeeds with a generated identifier and is recorded once, and a listing
\* after k sends shows k entries in send order, each with the to and the
\* body of its send.
C6_ListingShowsBodies ==
    MockMessaging =>
       /\ C6_SendsRecorded
       /\ IsListing =>
             \A k \in 1..Len(confirmed_sends) :
                response.entries[k].content = confirmed_sends[k].body

\* C6 (amended): as claimed, except that a listing entry shows the body's
\* first 50 characters, followed by "..." when the body is longer than 50.
C6_ListingShowsBodyPrefix ==
    MockMessaging =>
       /\ C6_SendsRecorded
       /\ IsListing =>
             \A k \in 1..Len(confirmed_sends) :
                LET body == confirmed_sends[k].body
                    shown == response.entries[k].content
                IN  IF Len(body) <= 50
                    THEN shown = body
                    ELSE /\ Len(shown) = 53
                         /\ \A j \in 1..50 : shown[j] = body[j]
                         /\ \A j \in 51..53 : shown[j] = "."

\* a listing after two mock sends, a short body and then a long one
C6_Witness ==
    /\ MockMessaging
    /\ IsListing
    /\ Len(confirmed_sends) = 2
    /\ confirmed_sends[1].body = Reminder
    /\ Len(confirmed_sends[2].body) > 50
    /\ response.total = 2

(* C7 *)

\* C7: a get_sent_messages call leaves SENT_MESSAGES as it was; when the
\* call before it was a get_sent_messages too it returns the same report;
\* and it never reports fewer entries than the listing before it did.
C7_ListingReadOnly ==
    [][ (process = "action" /\ IsListing') =>
          /\ SENT_MESSAGES' = SENT_MESSAGES
          /\ IsListing => response' = response
          /\ last_listing # NoListing => response'.total >= last_listing.total ]_vars

\* a listing that reports the two records of the log
C7_Witness ==
    /\ process = "action"
    /\ IsListing
    /\ response.total = 2
    /\ Len(SENT_MESSAGES) = 2
    /\ last_listing = response

(* C8 *)

\* the step is a successful mock send that appended its one record
MockSendAppends ==
    /\ IsCall'
    /\ request'.name = "send_sms_notification"
    /\ invoked' = { "send_sms_mock" }
    /\ response'.title = "SMS Notification Sent"
    /\ Len(SENT_MESSAGES') = Len(SENT_MESSAGES) + 1
    /\ SubSeq(SENT_MESSAGES', 1, Len(SENT_MESSAGES)) = SENT_MESSAGES
    /\ SENT_MESSAGES'[Len(SENT_MESSAGES')].to = request'.arguments.phone_number
    /\ SENT_MESSAGES'[Len(SENT_MESSAGES')].body = request'.arguments.message_body

\* C8: every step either leaves SENT_MESSAGES as it was or is a successful
\* mock send that appends one record at the end; in particular list_tools,
\* get_sent_messages, rejected sends, unknown tools and Live sends leave it
\* as it was, and a successful mock send does append.
C8_AppendOnly ==
    [][ /\ SENT_MESSAGES' # SENT_MESSAGES => MockSendAppends
        /\ invoked' = { "send_sms_mock" } /\ request' # request => MockSendAppends
      ]_vars

\* a second record was appended behind a different first one
C8_Witness ==
    /\ Len(SENT_MESSAGES) = 2
    /\ SENT_MESSAGES[1].body # SENT_MESSAGES[2].body
    /\ IsCall
    /\ request.name = "send_sms_notification"
    /\ invoked = { "send_sms_mock" }

(* C9 *)

\* C9 (as claimed): every send that returned "SMS Notification Sent", Live
\* or Demo, is an entry of SENT_MESSAGES and of every later listing.
C9_ListingHoldsEverySend ==
    process = "action" =>
       /\ Len(SENT_MESSAGES) >= Len(confirmed_sends)
       /\ IsListing => response.total >= Len(confirmed_sends)

\* a listing that reports no message after a Live send was confirmed
C9_Witness ==
    /\ process = "action"
    /\ IsListing
    /\ Len(confirmed_sends) = 1
    /\ confirmed_sends[1].mode = "Live"
    /\ response.total = 0
    /\ response.text = "No messages have been sent in this session."

(* C10 *)

FailureTitles == { "SMS Failed", "Query Error", "Lookup Error" }

\* C10: a failure of the external system never leaves the handler as an
\* exception; a call under which the external
\* system failed returns the failure report of its integration and leaves
\* SENT_MESSAGES and the configuration as they were, so that the next call
\* is served from the state the failed call found; and a call is always
\* possible.
C10_FailureContained ==
    /\ [](external_fault => ~raised)
    /\ [](external_fault => response.title \in FailureTitles)
    /\ [][ external_fault' =>
             /\ SENT_MESSAGES' = SENT_MESSAGES
             /\ config' = config ]_vars
    /\ [](ENABLED (ActionCallTool \/ DataCallTool \/ CqlCallTool))

\* the SMS gateway has failed after an earlier send was confirmed
C10_Witness ==
    /\ external_fault
    /\ response.title = "SMS Failed"
    /\ invoked = { "send_sms_real" }
    /\ Len(confirmed_sends) = 1


(***************************************************************************)
(* C11.  The mock query adapter matches on keywords, without regard to     *)
(* case: a query whose text contains "patient", "risk" or "gap" gets a     *)
(* success report with a non-empty row set whose columns include RiskScore *)
(* and GapStatus; any other query gets a success report with zero rows.    *)
(***************************************************************************)
QueryKeywords ==
    { << "p","a","t","i","e","n","t" >>, << "r","i","s","k" >>,
      << "g","a","p" >> }

MentionsKeyword(text) ==
    \E k \in QueryKeywords : Contains(k, Lower(text))

InHeader(rep, column) ==
    \E i \in 1..Len(rep.header) : rep.header[i] = column

IsMockQuery ==
    /\ process = "data"
    /\ ~DatabricksLive
    /\ IsCall
    /\ request.name = "execute_databricks_sql"

C11_MockQueryByKeyword ==
    IsMockQuery =>
        /\ response.title = "Databricks Query Results"
        /\ response.status = "Success"
        /\ IF MentionsKeyword(Get(request.arguments, "sql_query", << >>))
             THEN /\ response.rows_returned > 0
                  /\ Len(response.table) > 0
                  /\ InHeader(response, "RiskScore")
                  /\ InHeader(response, "GapStatus")
             ELSE /\ response.rows_returned = 0
                  /\ response.table = << >>

C11_Witness ==
    /\ IsMockQuery
    /\ Get(request.arguments, "sql_query", << >>)
         = << "c","a","r","e"," ","G","A","P","s" >>
    /\ response.rows_returned > 0


(***************************************************************************)
(* C12.  A lookup that finds no record reports "Patient Not Found", which  *)
(* is another report than the "Lookup Error" of a failed lookup.  With the *)
(* mock adapter an id is found exactly when it is one of the keys of the   *)
(* static patient table; with the Live adapter a store that returns no row *)
(* gives "Patient Not Found", a store that fails gives "Lookup Error" and  *)
(* a store that returns a row gives the patient's details.                 *)
(***************************************************************************)
StaticPatientKeys ==
    { "patient-001", "patient-002", "patient-003", "patient-004",
      "patient-005" }

IsLookup ==
    /\ process = "data"
    /\ IsCall
    /\ request.name = "lookup_patient_details"

LookedUp == Get(request.arguments, "patient_id", "")

C12_NotFoundIsNotAnError ==
    IsLookup =>
        /\ response.title \in { "Patient Details (Firemetrics)",
                                "Patient Not Found", "Lookup Error" }
        /\ ~FiremetricsLive =>
              /\ store_reply = ""
              /\ IF LookedUp \in StaticPatientKeys
                   THEN /\ response.title = "Patient Details (Firemetrics)"
                        /\ response.patient_id = LookedUp
                   ELSE /\ response.title = "Patient Not Found"
                        /\ response.patient_id = LookedUp
        /\ FiremetricsLive =>
              /\ store_reply \in StoreOutcomes
              /\ store_reply = "no row" <=> response.title = "Patient Not Found"
              /\ store_reply = "raises" <=> response.title = "Lookup Error"
              /\ store_reply = "row"
                    <=> response.title = "Patient Details (Firemetrics)"

\* both kinds of miss have been reported: a near-miss key by the mock
\* adapter, or an empty answer of the Live store
C12_Witness ==
    /\ IsLookup
    /\ response.title = "Patient Not Found"
    /\ \/ ~FiremetricsLive /\ LookedUp = "PATIENT-001"
       \/ FiremetricsLive /\ store_reply = "no row" /\ LookedUp = "patient-001"


(***************************************************************************)
(* C13.  convert_cql_to_sql chooses its output by ordered keyword rules on *)
(* the lower-cased source text, first match wins: the diabetes template if *)
(* the text contains "diabetes", "hba1c" or "a1c"; otherwise the           *)
(* breast-cancer template if it contains "breast", "mammog" or "cms125";   *)
(* otherwise the generic template, which carries the target dialect and    *)
(* the source text.  A text matching both rule sets gets the diabetes      *)
(* template, and the SQL of a fixed template is the same for every target  *)
(* dialect.                                                                *)
(***************************************************************************)
DiabetesWords ==
    { << "d","i","a","b","e","t","e","s" >>, << "h","b","a","1","c" >>,
      << "a","1","c" >> }

BreastWords ==
    { << "b","r","e","a","s","t" >>, << "m","a","m","m","o","g" >>,
      << "c","m","s","1","2","5" >> }

Mentions(words, text) ==
    \E w \in words : Contains(w, Lower(text))

IsConversion ==
    /\ process = "cql"
    /\ IsCall
    /\ request.name = "convert_cql_to_sql"

SourceText == Get(request.arguments, "cql_logic", << >>)

TargetDialect == Get(request.arguments, "target_dialect", "spark-sql")

C13_FirstMatchingRuleWins ==
    IsConversion =>
        /\ response.title = "CQL to SQL Conversion Complete"
        /\ IF Mentions(DiabetesWords, SourceText)
             THEN response.sql = [ template |-> "diabetes_hba1c_gap",
                                   dialect  |-> "",
                                   original |-> << >> ]
             ELSE IF Mentions(BreastWords, SourceText)
             THEN response.sql = [ template |-> "breast_cancer_screening",
                                   dialect  |-> "",
                                   original |-> << >> ]
             ELSE /\ response.sql.template = "generic"
                  /\ response.sql.dialect = TargetDialect
                  /\ response.sql.original = Elide(SourceText, CqlSnippetLimit)

\* a text matching both rule sets has been converted
C13_Witness ==
    /\ IsConversion
    /\ Mentions(DiabetesWords, SourceText)
    /\ Mentions(BreastWords, SourceText)
    /\ response.sql.template = "diabetes_hba1c_gap"
    /\ TargetDialect = "snowflake"


(***************************************************************************)
(* C14.  A convert_cql_to_sql call whose target_dialect is not one of the  *)
(* allowed values spark-sql, snowflake, bigquery, postgresql fails with a  *)
(* validation error and does not run the conversion.                       *)
(***************************************************************************)
AllowedDialects == { "spark-sql", "snowflake", "bigquery", "postgresql" }

DialectOutsideEnum ==
    /\ IsConversion
    /\ "target_dialect" \in DOMAIN request.arguments
    /\ request.arguments.target_dialect \notin AllowedDialects

C14_DialectOutsideEnumRejected ==
    DialectOutsideEnum =>
        /\ IsValidationFailure(response)
        /\ "convert_cql_to_sql" \notin invoked

\* a dialect outside the allowed values has been converted
C14_Witness ==
    /\ DialectOutsideEnum
    /\ response.status = "Success"
    /\ response.target_dialect = "mysql"
    /\ "convert_cql_to_sql" \in invoked


(***************************************************************************)
(* C15.  On every server, list_tools returns the same descriptors in the   *)
(* same (declaration) order on every call of a process lifetime, whatever  *)
(* call_tool calls come in between, and the names in the list are pairwise *)
(* distinct.                                                               *)
(***************************************************************************)
DeclaredNames ==
    IF process = "action" THEN << "send_sms_notification", "get_sent_messages" >>
    ELSE IF process = "data" THEN << "execute_databricks_sql", "lookup_patient_details" >>
    ELSE << "convert_cql_to_sql", "validate_cql" >>

IsToolList == request.op = "list_tools"

NamesOf(tools) == [ i \in 1..Len(tools) |-> tools[i].name ]

C15_ListToolsFixed ==
    /\ [](IsToolList =>
             /\ response.tools = list_tools
             /\ NamesOf(response.tools) = DeclaredNames
             /\ \A i, j \in 1..Len(response.tools) :
                   i # j => response.tools[i].name # response.tools[j].name)
    /\ [][ list_tools' = list_tools ]_vars
    /\ [][ IsToolList /\ IsToolList' => response' = response ]_vars

\* the list has been asked for after a mock send was recorded
C15_Witness ==
    /\ IsToolList
    /\ SENT_MESSAGES # << >>
    /\ used # { }
    /\ Len(response.tools) = 2


(***************************************************************************)
(* C16.  send_sms_notification validates before it selects a backend, and  *)
(* in the declared parameter order: with Live and with Mock configuration  *)
(* alike, an empty or absent phone_number or message_body gives a          *)
(* validation failure with no adapter run; the report names exactly one    *)
(* error, the phone_number error whenever the phone number is empty or     *)
(* absent (so also when both are), the message_body error otherwise.       *)
(***************************************************************************)
IsSend ==
    /\ process = "action"
    /\ IsCall
    /\ request.name = "send_sms_notification"

SendPhone == Get(request.arguments, "phone_number", "")

SendBody == Get(request.arguments, "message_body", << >>)

C16_ValidationFirstInDeclaredOrder ==
    IsSend /\ (SendPhone = "" \/ SendBody = << >>) =>
        /\ response.title = "Error"
        /\ DOMAIN response = { "title", "error" }
        /\ response.error = IF SendPhone = "" THEN "Phone number is required"
                            ELSE "Message body is required"
        /\ invoked = { }
        /\ ~raised

\* with the Live gateway configured, a send with neither argument usable
\* has been refused
C16_Witness ==
    /\ IsSend
    /\ TwilioLive
    /\ SendPhone = ""
    /\ SendBody = << >>
    /\ "message_body" \in DOMAIN request.arguments
    /\ response.error = "Phone number is required"


(***************************************************************************)
(* C19.  The message identifiers of the records in SENT_MESSAGES are       *)
(* pairwise distinct: any two successful mock sends of one process, also   *)
(* two within the same clock second, get different identifiers.            *)
(***************************************************************************)
C19_MessageIdsDistinct ==
    \A i, j \in 1..Len(SENT_MESSAGES) :
        i # j => SENT_MESSAGES[i].message_sid # SENT_MESSAGES[j].message_sid

\* two mock sends of one clock second are on record under one identifier
C19_Witness ==
    /\ Len(SENT_MESSAGES) = 2
    /\ SENT_MESSAGES[1].timestamp # SENT_MESSAGES[2].timestamp
    /\ Strftime(SENT_MESSAGES[1].timestamp) = Strftime(SENT_MESSAGES[2].timestamp)
    /\ SENT_MESSAGES[1].message_sid = SENT_MESSAGES[2].message_sid
    /\ response.title = "SMS Notification Sent"
    /\ response.message_sid = SENT_MESSAGES[1].message_sid


(***************************************************************************)
(* C18.  Rendering a result never raises: whatever the types of the        *)
(* argument values (a message body or a query text that is a number        *)
(* instead of a string, a stored record whose body cannot be sliced),      *)
(* every call returns a report, and in particular a record stored by one   *)
(* send cannot make a later get_sent_messages call fail.                   *)
(***************************************************************************)
C18_RenderingNeverRaises ==
    IsCall =>
        /\ ~raised
        /\ response.title # "<exception>"

\* a send whose body is a number was accepted and recorded, and the listing
\* asked for afterwards ended in an exception
C18_Witness ==
    /\ IsListing
    /\ raised
    /\ ~external_fault
    /\ \E i \in 1..Len(SENT_MESSAGES) : SENT_MESSAGES[i].body = Number
    /\ \E k \in 1..Len(confirmed_sends) :
          /\ confirmed_sends[k].body = Number
          /\ confirmed_sends[k].mode = "Demo"


(***************************************************************************)
(* C17.  Calls do not overlap within one process: a handler is started     *)
(* only when no other handler is between its start and its return, each    *)
(* runs to its return before the next starts, also while a Live adapter    *)
(* waits for the gateway, and so the records of SENT_MESSAGES stand in the *)
(* order in which the mock sends returned.                                 *)
(***************************************************************************)
IsMockSendTask(i) == tasks[i].out.invoked = { "send_sms_mock" }

\* the record a mock send task appended
RecordOf(i) == tasks[i].out.SENT_MESSAGES[Len(tasks[i].out.SENT_MESSAGES)]

ReturnedMockSends == SelectSeq(completed, IsMockSendTask)

C17_CallsDoNotOverlap ==
    /\ [](Cardinality(Running) <= 1)
    /\ [][ \A i \in DOMAIN tasks :
              tasks[i].pc = "ready" /\ tasks'[i].pc = "running"
                 => /\ Running = { }
                    /\ holder = 0 ]_vars
    /\ [](\A i \in Running :
             /\ holder = i
             /\ ~ENABLED Begin)
    /\ [](/\ Len(ReturnedMockSends) <= Len(SENT_MESSAGES)
          /\ \A k \in 1..Len(ReturnedMockSends) :
                SENT_MESSAGES[k] = RecordOf(ReturnedMockSends[k]))

\* the Live gateway call of one send is outstanding while another request
\* has been read and waits for the thread
C17_Witness ==
    /\ TwilioLive
    /\ \E i \in Running : "send_sms_real" \in tasks[i].out.invoked
    /\ \E j \in DOMAIN tasks : tasks[j].pc = "ready"
    /\ holder # 0

====
